---------------------------- MODULE Spec2Model ----------------------------
(***************************************************************************)
(* Tender Triage Engine of the React dashboard: the TenderList component   *)
(* (view / search / category / sort derivation and the detail modal with   *)
(* its on-demand fetch).                                                   *)
(*                                                                         *)
(* Source: src/react-frontend/src/components/TenderList.tsx                *)
(*         src/react-frontend/src/services/api.ts                          *)
(*         src/react-frontend/src/hooks/useApi.ts                          *)
(***************************************************************************)
EXTENDS Integers, Sequences, FiniteSets, TLC

VARIABLES
    tenders,            \* props.tenders of TenderList (the store's collection)
    searchTerm,         \* useState('')
    selectedCategory,   \* useState<CategoryType>('all')
    selectedView,       \* useState<ViewType>('processed')
    sortBy,             \* useState<SortType>('newest')
    isModalOpen,        \* useState(false)
    selectedTender,     \* useState<Tender | null>(null)
    detailedTender,     \* useState<Tender | null>(null)
    loadingDetails,     \* useState(false)
    error,              \* useApiData: the dismissible error notice
    filteredTenders,    \* const filteredTenders of the last completed render
    mounted,            \* FALSE once a render has thrown (React unmounts the tree)
    inflight,           \* openModal calls suspended at their await
    issued,             \* number of detail fetches started so far
    consoleErrors,      \* messages written with console.error
    lastOp,             \* the handler that ran last (observation only)
    contact,            \* a contact_info payload on its way through the detail view
    badges,             \* what getUrgencyDisplay gave for each card of the last render
    store,              \* useApiData: the rest of its state and its requests in flight
    settings            \* Settings: the recipient lists and the requests in flight

vars == <<tenders, searchTerm, selectedCategory, selectedView, sortBy,
          isModalOpen, selectedTender, detailedTender, loadingDetails, error,
          filteredTenders, mounted, inflight, issued, consoleErrors, lastOp,
          contact, badges, store, settings>>

controls == <<searchTerm, selectedCategory, selectedView, sortBy>>
loader   == <<isModalOpen, selectedTender, detailedTender, loadingDetails>>

----------------------------------------------------------------------------
(* Bounds *)

MaxFetches == 2     \* detail fetches started in one behaviour
MaxLen     == 2     \* tenders in a collection of the view specification
MaxSortLen == 3     \* tenders in a collection of the sort specifications
MaxBadgeLen == 1    \* tenders in a collection of the badge specification
MaxRefreshes == 1   \* refreshes and extractions after the initial load, store specification
MaxBatches == 2     \* refreshes and extractions, overlap specification

----------------------------------------------------------------------------
(* Values *)

\* JavaScript null for Tender | null and string | null
Null == [isNull |-> TRUE]

\* an optional property: absent (undefined) or holding a value
None    == [present |-> FALSE]
Some(v) == [present |-> TRUE, v |-> v]

\* JavaScript numbers as far as the comparators need them: an integer or NaN
Num(n) == [nan |-> FALSE, n |-> n]
NaN    == [nan |-> TRUE, n |-> 0]

\* a - b on JavaScript numbers
Minus(a, b) == IF a.nan \/ b.nan THEN NaN ELSE Num(a.n - b.n)

\* strings that are searched are sequences of characters
LowerChar(c) ==
    CASE c = "A" -> "a" [] c = "B" -> "b" [] c = "D" -> "d" [] c = "E" -> "e"
      [] c = "G" -> "g" [] c = "N" -> "n" [] c = "O" -> "o" [] c = "S" -> "s"
      [] OTHER -> c

toLowerCase(s) == [i \in 1..Len(s) |-> LowerChar(s[i])]

includes(hay, needle) ==
    \E i \in 0..(Len(hay) - Len(needle)) :
        SubSeq(hay, i + 1, i + Len(needle)) = needle

\* truthiness of an optional string (undefined and '' are falsy)
TruthyString(o) == o.present /\ o.v # ""
TruthyText(o)   == o.present /\ o.v # <<>>

\* new Date(s).getTime() in days; a string that is no date gives NaN
DateGetTime(s) ==
    CASE s = "2024-01-10" -> Num(10)
      [] s = "2024-02-10" -> Num(41)
      [] s = "2024-03-10" -> Num(70)
      [] OTHER -> NaN

----------------------------------------------------------------------------
(* Tender records (types/index.ts) *)

DeadlineStatuses == {"active", "urgent", "expired", "unknown"}
UrgencyLevels    == {"urgent", "high", "medium", "low", "expired"}
Views            == {"processed", "all", "active", "expired"}
SortTypes        == {"newest", "oldest", "deadline", "urgent"}
Categories       == {"all", "esg", "credit_rating"}

DateValidationDays(status, level, days) ==
    [deadline_status |-> status, urgency_level |-> level,
     days_until_deadline |-> days]

DateValidation(status, level) == DateValidationDays(status, level, None)

DetailedInfo(title, deadline, dv) ==
    [detailed_title |-> title, deadline |-> deadline, date_validation |-> dv]

Tender(id, title, category, processed, created, tdate, info) ==
    [id |-> id, title |-> title, description |-> None, category |-> category,
     tender_date |-> tdate, is_processed |-> processed, created_at |-> created,
     detailed_info |-> info]

\* t.detailed_info?.date_validation
dateValidationOf(t) ==
    IF t.detailed_info.present THEN t.detailed_info.v.date_validation ELSE None

\* t.detailed_info?.deadline
deadlineOf(t) ==
    IF t.detailed_info.present THEN t.detailed_info.v.deadline ELSE None

----------------------------------------------------------------------------
(* getFilteredTenders and what it calls *)

\* ViewKeeps with an active view that keeps every status but expired
ViewKeepsUnknownActive(t, view) ==
    LET dv == dateValidationOf(t) IN
    CASE view = "processed" -> t.is_processed
      [] view = "all"       -> TRUE
      [] view = "active"    ->
            IF ~dv.present THEN TRUE
            ELSE dv.v.deadline_status # Some("expired")
      [] view = "expired"   ->
            IF ~dv.present THEN FALSE
            ELSE dv.v.deadline_status = Some("expired")
      [] OTHER -> TRUE

\* ViewKeeps with an expired view that also keeps tenders without
\* date_validation
ViewKeepsExpiredOpen(t, view) ==
    LET dv == dateValidationOf(t) IN
    CASE view = "processed" -> t.is_processed
      [] view = "all"       -> TRUE
      [] view = "active"    ->
            IF ~dv.present THEN TRUE
            ELSE (IF TruthyString(dv.v.deadline_status)
                  THEN dv.v.deadline_status.v ELSE "") \in {"active", "urgent"}
      [] view = "expired"   ->
            IF ~dv.present THEN TRUE
            ELSE dv.v.deadline_status = Some("expired")
      [] OTHER -> TRUE

\* the switch on selectedView
ViewKeeps(t, view) ==
    LET dv == dateValidationOf(t) IN
    CASE view = "processed" -> t.is_processed
      [] view = "all"       -> TRUE
      [] view = "active"    ->
            IF ~dv.present THEN TRUE
            ELSE (IF TruthyString(dv.v.deadline_status)
                  THEN dv.v.deadline_status.v ELSE "") \in {"active", "urgent"}
      [] view = "expired"   ->
            IF ~dv.present THEN FALSE
            ELSE dv.v.deadline_status = Some("expired")
      [] OTHER -> TRUE

\* getViewStats: the counts on the four view tabs
getViewStats(T) ==
    LET Count(P(_)) == Cardinality({i \in 1..Len(T) : P(T[i])})
        Processed(t) == t.is_processed
        Active(t) ==
            LET dv == dateValidationOf(t) IN
            IF ~dv.present THEN FALSE
            ELSE (IF TruthyString(dv.v.deadline_status)
                  THEN dv.v.deadline_status.v ELSE "") \in {"active", "urgent"}
        Expired(t) ==
            LET dv == dateValidationOf(t) IN
            IF ~dv.present THEN FALSE
            ELSE dv.v.deadline_status = Some("expired")
    IN  [processed |-> Count(Processed), all |-> Len(T),
         active |-> Count(Active), expired |-> Count(Expired)]

\* SearchKeeps that looks at the title only
SearchKeepsTitleOnly(t, term) ==
    includes(toLowerCase(t.title), toLowerCase(term))

\* the search predicate; applied only when searchTerm is truthy
SearchKeeps(t, term) ==
    \/ includes(toLowerCase(t.title), toLowerCase(term))
    \/ /\ TruthyText(t.description)
       /\ includes(toLowerCase(t.description.v), toLowerCase(term))

\* CategoryKeeps that lets category 'both' through every selection
CategoryKeepsBoth(t, category) == t.category = category \/ t.category = "both"

\* the category predicate; applied only when selectedCategory is not 'all'
CategoryKeeps(t, category) == t.category = category

getUrgencyScore(t) ==
    LET dv == dateValidationOf(t) IN
    IF ~dv.present \/ ~TruthyString(dv.v.urgency_level) THEN 0
    ELSE CASE dv.v.urgency_level.v = "urgent"  -> 5
           [] dv.v.urgency_level.v = "high"    -> 4
           [] dv.v.urgency_level.v = "medium"  -> 3
           [] dv.v.urgency_level.v = "low"     -> 2
           [] dv.v.urgency_level.v = "expired" -> 1
           [] OTHER -> 0

\* Source lines of the component body.  The body runs top to bottom on every
\* render: a const declared on a later line than the statement that is
\* executing is still uninitialised, and reading it throws a ReferenceError.
FilteredTendersLine == 128
GetUrgencyScoreLine == 131

Initialised(declLine, useLine) == declLine < useLine

\* a.detailed_info?.deadline || a.tender_date
effectiveDeadline(t) ==
    IF TruthyString(deadlineOf(t)) THEN deadlineOf(t) ELSE t.tender_date

Returned(n) == [threw |-> FALSE, n |-> n]
Thrown      == [threw |-> TRUE, n |-> NaN]

\* Compare whose 'newest' branch subtracts the wrong way round
CompareNewestAscending(a, b, sort, useLine) ==
    CASE sort = "newest" ->
            Returned(Minus(DateGetTime(a.created_at), DateGetTime(b.created_at)))
      [] sort = "oldest" ->
            Returned(Minus(DateGetTime(a.created_at), DateGetTime(b.created_at)))
      [] sort = "deadline" ->
            LET deadlineA == effectiveDeadline(a)
                deadlineB == effectiveDeadline(b)
            IN  IF ~TruthyString(deadlineA) /\ ~TruthyString(deadlineB)
                    THEN Returned(Num(0))
                ELSE IF ~TruthyString(deadlineA) THEN Returned(Num(1))
                ELSE IF ~TruthyString(deadlineB) THEN Returned(Num(0 - 1))
                ELSE Returned(Minus(DateGetTime(deadlineA.v),
                                    DateGetTime(deadlineB.v)))
      [] sort = "urgent" ->
            IF Initialised(GetUrgencyScoreLine, useLine)
                THEN Returned(Num(getUrgencyScore(b) - getUrgencyScore(a)))
                ELSE Thrown
      [] OTHER -> Returned(Num(0))

\* the comparator handed to filtered.sort, called while line useLine executes
Compare(a, b, sort, useLine) ==
    CASE sort = "newest" ->
            Returned(Minus(DateGetTime(b.created_at), DateGetTime(a.created_at)))
      [] sort = "oldest" ->
            Returned(Minus(DateGetTime(a.created_at), DateGetTime(b.created_at)))
      [] sort = "deadline" ->
            LET deadlineA == effectiveDeadline(a)
                deadlineB == effectiveDeadline(b)
            IN  IF ~TruthyString(deadlineA) /\ ~TruthyString(deadlineB)
                    THEN Returned(Num(0))
                ELSE IF ~TruthyString(deadlineA) THEN Returned(Num(1))
                ELSE IF ~TruthyString(deadlineB) THEN Returned(Num(0 - 1))
                ELSE Returned(Minus(DateGetTime(deadlineA.v),
                                    DateGetTime(deadlineB.v)))
      [] sort = "urgent" ->
            IF Initialised(GetUrgencyScoreLine, useLine)
                THEN Returned(Num(getUrgencyScore(b) - getUrgencyScore(a)))
                ELSE Thrown
      [] OTHER -> Returned(Num(0))

\* the number sort reads from a comparator result: NaN counts as +0
SortOrder(r) == IF r.n.nan THEN 0 ELSE r.n.n

Rendered(list) == [threw |-> FALSE, list |-> list]
RenderThrew    == [threw |-> TRUE, list |-> <<>>]

\* Array.prototype.sort(comparefn): the possible results.  Fewer than two
\* elements: comparefn is never called.  A throw of comparefn leaves sort.
\* A consistent comparefn gives the one stable order; for an inconsistent one
\* the order is implementation-defined, and every order in which each element
\* is not greater than its successor is taken as possible.
ArraySort(s, sort, useLine) ==
    LET n == Len(s)
        c(i, j) == SortOrder(Compare(s[i], s[j], sort, useLine))
        Consistent ==
            /\ \A i, j \in 1..n : (c(i, j) < 0) <=> (c(j, i) > 0)
            /\ \A i, j, k \in 1..n :
                    (c(i, j) <= 0 /\ c(j, k) <= 0) => c(i, k) <= 0
        Perms == {p \in [1..n -> 1..n] : \A x, y \in 1..n : x # y => p[x] # p[y]}
        Stable(p) == \A x, y \in 1..n : x < y =>
                        \/ c(p[x], p[y]) < 0
                        \/ (c(p[x], p[y]) = 0 /\ p[x] < p[y])
        Local(p) == \A x \in 1..(n - 1) : c(p[x], p[x + 1]) <= 0
    IN  IF n < 2 THEN {Rendered(s)}
        ELSE IF \E i, j \in 1..n : i # j /\ Compare(s[i], s[j], sort, useLine).threw
            THEN {RenderThrew}
        ELSE {Rendered([x \in 1..n |-> s[p[x]]]) :
                p \in {q \in Perms : IF Consistent THEN Stable(q) ELSE Local(q)}}

\* getFilteredTenders, called while line useLine of the component body executes
getFilteredTenders(T, view, term, category, sort, useLine) ==
    LET byView     == SelectSeq(T, LAMBDA t : ViewKeeps(t, view))
        bySearch   == IF term # <<>>
                        THEN SelectSeq(byView, LAMBDA t : SearchKeeps(t, term))
                        ELSE byView
        byCategory == IF category # "all"
                        THEN SelectSeq(bySearch, LAMBDA t : CategoryKeeps(t, category))
                        ELSE bySearch
    IN  ArraySort(byCategory, sort, useLine)

\* one render of TenderList with the given inputs: line 128 computes
\* filteredTenders; an exception thrown there unmounts the component tree
\* the own keys of urgencyConfig and the text of each entry
UrgencyConfigText(level) ==
    CASE level = "urgent"  -> "Urgent"
      [] level = "high"    -> "High Priority"
      [] level = "medium"  -> "Medium"
      [] level = "low"     -> "Low"
      [] level = "expired" -> "Expired"

UrgencyConfigKeys == {"urgent", "high", "medium", "low", "expired"}

\* property names every object literal inherits from Object.prototype; a
\* lookup by such a name finds a function, which is truthy and has no icon
ObjectPrototypeKeys == {"constructor", "toString"}

NoBadge          == [kind |-> "null", text |-> "", days |-> None]
Badge(text, days) == [kind |-> "badge", text |-> text, days |-> days]
InvalidElement   == [kind |-> "invalid", text |-> "", days |-> None]

\* days_until_deadline !== null && !== undefined && >= 0
DaysShown(days) ==
    days.present /\ days.v # Null /\ ~days.v.nan /\ days.v.n >= 0

\* getUrgencyDisplay that shows every day count that is a number
getUrgencyDisplayAnyDays(t) ==
    LET dv == dateValidationOf(t) IN
    IF ~dv.present THEN NoBadge
    ELSE LET level == dv.v.urgency_level
             days  == dv.v.days_until_deadline
         IN  IF ~level.present THEN NoBadge
             ELSE IF level.v \in UrgencyConfigKeys
                THEN Badge(UrgencyConfigText(level.v),
                           IF days.present /\ days.v # Null THEN days ELSE None)
             ELSE IF level.v \in ObjectPrototypeKeys THEN InvalidElement
             ELSE NoBadge

\* getUrgencyDisplay: null, the badge (its text and the day count it
\* carries), or an element whose type is undefined, which React refuses to
\* render
getUrgencyDisplay(t) ==
    LET dv == dateValidationOf(t) IN
    IF ~dv.present THEN NoBadge
    ELSE LET level == dv.v.urgency_level
             days  == dv.v.days_until_deadline
         IN  IF ~level.present THEN NoBadge
             ELSE IF level.v \in UrgencyConfigKeys
                THEN Badge(UrgencyConfigText(level.v),
                           IF DaysShown(days) THEN days ELSE None)
             ELSE IF level.v \in ObjectPrototypeKeys THEN InvalidElement
             ELSE NoBadge

CardThrew == <<InvalidElement>>

\* filteredTenders.map: the badge of each card, or CardThrew when React
\* meets an invalid element
CardsOf(list) ==
    IF \E i \in 1..Len(list) : getUrgencyDisplay(list[i]) = InvalidElement
        THEN CardThrew
        ELSE [i \in 1..Len(list) |-> getUrgencyDisplay(list[i])]

\* Render that keeps the list of the previous render while the modal is open
RenderMemoised(T, term, category, view, sort) ==
    \E r \in getFilteredTenders(T, view, term, category, sort, FilteredTendersLine) :
        LET list == IF isModalOpen THEN filteredTenders ELSE r.list
            threw == r.threw \/ CardsOf(list) = CardThrew
        IN  /\ tenders' = T
            /\ mounted' = ~threw
            /\ filteredTenders' = IF threw THEN <<>> ELSE list
            /\ badges' = IF threw THEN <<>> ELSE CardsOf(list)

\* Render without the copy [...tenders]: where no stage has made a new
\* array, sort works on the prop itself
RenderSortsInPlace(T, term, category, view, sort) ==
    \E r \in getFilteredTenders(T, view, term, category, sort, FilteredTendersLine) :
        LET threw == r.threw \/ CardsOf(r.list) = CardThrew
        IN  /\ tenders' = IF ~r.threw /\ Len(r.list) = Len(T) THEN r.list ELSE T
            /\ mounted' = ~threw
            /\ filteredTenders' = IF threw THEN <<>> ELSE r.list
            /\ badges' = IF threw THEN <<>> ELSE CardsOf(r.list)

\* one render of the component: line 128 derives the list anew from the
\* props and the four controls, line 368 maps it to the cards; an exception
\* unmounts the component.  The stages work on the copy [...tenders], so
\* the array T of the prop is after the render what it was before.
Render(T, term, category, view, sort) ==
    \E r \in getFilteredTenders(T, view, term, category, sort, FilteredTendersLine) :
        LET threw == r.threw \/ CardsOf(r.list) = CardThrew
        IN  /\ tenders' = T
            /\ mounted' = ~threw
            /\ filteredTenders' = IF threw THEN <<>> ELSE r.list
            /\ badges' = IF threw THEN <<>> ELSE CardsOf(r.list)

\* the render that follows a state change which leaves the controls alone
ReRender ==
    IF mounted
        THEN Render(tenders, searchTerm, selectedCategory, selectedView, sortBy)
        ELSE UNCHANGED <<tenders, filteredTenders, mounted, badges>>

Range(s) == {s[i] : i \in 1..Len(s)}

----------------------------------------------------------------------------
(* Controls *)

SearchTerms == {<<>>, <<"e", "S">>}

Op(name, req, tender) == [op |-> name, req |-> req, tender |-> tender]

SetSearchTerm(term) ==
    /\ mounted
    /\ searchTerm' = term
    /\ Render(tenders, term, selectedCategory, selectedView, sortBy)
    /\ lastOp' = Op("control", 0, Null)
    /\ UNCHANGED <<store, settings, contact, selectedCategory, selectedView, sortBy, loader,
                   error, inflight, issued, consoleErrors>>

SetSelectedCategory(category) ==
    /\ mounted
    /\ selectedCategory' = category
    /\ Render(tenders, searchTerm, category, selectedView, sortBy)
    /\ lastOp' = Op("control", 0, Null)
    /\ UNCHANGED <<store, settings, contact, searchTerm, selectedView, sortBy, loader,
                   error, inflight, issued, consoleErrors>>

SetSelectedView(view) ==
    /\ mounted
    /\ selectedView' = view
    /\ Render(tenders, searchTerm, selectedCategory, view, sortBy)
    /\ lastOp' = Op("control", 0, Null)
    /\ UNCHANGED <<store, settings, contact, searchTerm, selectedCategory, sortBy, loader,
                   error, inflight, issued, consoleErrors>>

SetSortBy(sort) ==
    /\ mounted
    /\ sortBy' = sort
    /\ Render(tenders, searchTerm, selectedCategory, selectedView, sort)
    /\ lastOp' = Op("control", 0, Null)
    /\ UNCHANGED <<store, settings, contact, searchTerm, selectedCategory, selectedView, loader,
                   error, inflight, issued, consoleErrors>>

\* the 'Clear all filters' button of the empty state
ClearAllFilters ==
    /\ mounted
    /\ Len(filteredTenders) = 0
    /\ searchTerm' = <<>>
    /\ selectedCategory' = "all"
    /\ selectedView' = "all"
    /\ Render(tenders, <<>>, "all", "all", sortBy)
    /\ lastOp' = Op("control", 0, Null)
    /\ UNCHANGED <<store, settings, contact, sortBy, loader, error, inflight, issued,
                   consoleErrors>>

----------------------------------------------------------------------------
(* Detail modal *)

DetailTitles == {"Detail A", "Detail B"}

\* a record GET /api/v1/tenders/{id} can answer for tender t
Enriched(t, title) ==
    [t EXCEPT !.detailed_info =
        Some([(IF t.detailed_info.present THEN t.detailed_info.v
               ELSE DetailedInfo(None, None, None))
              EXCEPT !.detailed_title = Some(title)])]

DetailResponses(t) == {Enriched(t, title) : title \in DetailTitles}

Fetch(req, tender) == [req |-> req, tender |-> tender]

\* OpenModal without setLoadingDetails(true)
OpenModalWithoutSpinner(t) ==
    /\ mounted
    /\ issued < MaxFetches
    /\ t \in Range(filteredTenders)
    /\ t.is_processed
    /\ selectedTender' = t
    /\ isModalOpen' = TRUE
    /\ issued' = issued + 1
    /\ inflight' = inflight \cup {Fetch(issued + 1, t)}
    /\ lastOp' = Op("openModal", issued + 1, t)
    /\ ReRender
    /\ UNCHANGED <<store, settings, contact, controls, detailedTender, loadingDetails, error,
                   consoleErrors>>

\* openModal(tender) up to its await; the 'View Details' button exists for
\* the processed tenders of the rendered list
OpenModal(t) ==
    /\ mounted
    /\ issued < MaxFetches
    /\ t \in Range(filteredTenders)
    /\ t.is_processed
    /\ selectedTender' = t
    /\ isModalOpen' = TRUE
    /\ loadingDetails' = TRUE
    /\ issued' = issued + 1
    /\ inflight' = inflight \cup {Fetch(issued + 1, t)}
    /\ lastOp' = Op("openModal", issued + 1, t)
    /\ ReRender
    /\ UNCHANGED <<store, settings, contact, controls, detailedTender, error, consoleErrors>>

\* CloseModal without setDetailedTender(null)
CloseModalKeepsDetail ==
    /\ mounted
    /\ isModalOpen
    /\ isModalOpen' = FALSE
    /\ selectedTender' = Null
    /\ loadingDetails' = FALSE
    /\ lastOp' = Op("closeModal", 0, Null)
    /\ ReRender
    /\ UNCHANGED <<store, settings, contact, controls, detailedTender, error, inflight, issued,
                   consoleErrors>>

\* closeModal: the overlay, the X button, the Close button, or Escape with
\* the modal open (handleEscape)
CloseModal ==
    /\ mounted
    /\ isModalOpen
    /\ isModalOpen' = FALSE
    /\ selectedTender' = Null
    /\ detailedTender' = Null
    /\ loadingDetails' = FALSE
    /\ lastOp' = Op("closeModal", 0, Null)
    /\ ReRender
    /\ UNCHANGED <<store, settings, contact, controls, error, inflight, issued, consoleErrors>>

\* DetailResolved that shows the summary tender instead of the response
DetailResolvedKeepsSummary(f, detailed) ==
    /\ f \in inflight
    /\ detailed \in DetailResponses(f.tender)
    /\ inflight' = inflight \ {f}
    /\ lastOp' = Op("detailResolved", f.req, detailed)
    /\ IF mounted
         THEN /\ detailedTender' = f.tender
              /\ loadingDetails' = FALSE
         ELSE UNCHANGED <<detailedTender, loadingDetails>>
    /\ ReRender
    /\ UNCHANGED <<store, settings, contact, controls, isModalOpen, selectedTender, error,
                   issued, consoleErrors>>

\* openModal after its await, the fetch having resolved with detailed
DetailResolved(f, detailed) ==
    /\ f \in inflight
    /\ detailed \in DetailResponses(f.tender)
    /\ inflight' = inflight \ {f}
    /\ lastOp' = Op("detailResolved", f.req, detailed)
    /\ IF mounted
         THEN /\ detailedTender' = detailed
              /\ loadingDetails' = FALSE
         ELSE UNCHANGED <<detailedTender, loadingDetails>>
    /\ ReRender
    /\ UNCHANGED <<store, settings, contact, controls, isModalOpen, selectedTender, error,
                   issued, consoleErrors>>

\* DetailRejected whose catch block does not fall back to the summary tender
DetailRejectedNoFallback(f) ==
    /\ f \in inflight
    /\ inflight' = inflight \ {f}
    /\ lastOp' = Op("detailRejected", f.req, f.tender)
    /\ consoleErrors' = consoleErrors \cup
            {"API request failed", "Failed to load tender details"}
    /\ IF mounted
         THEN /\ detailedTender' = detailedTender
              /\ loadingDetails' = FALSE
         ELSE UNCHANGED <<detailedTender, loadingDetails>>
    /\ ReRender
    /\ UNCHANGED <<store, settings, contact, controls, isModalOpen, selectedTender, error,
                   issued>>

\* openModal after its await, the fetch having rejected: apiRequest logs and
\* rethrows, the catch block logs and falls back to the summary tender
DetailRejected(f) ==
    /\ f \in inflight
    /\ inflight' = inflight \ {f}
    /\ lastOp' = Op("detailRejected", f.req, f.tender)
    /\ consoleErrors' = consoleErrors \cup
            {"API request failed", "Failed to load tender details"}
    /\ IF mounted
         THEN /\ detailedTender' = f.tender
              /\ loadingDetails' = FALSE
         ELSE UNCHANGED <<detailedTender, loadingDetails>>
    /\ ReRender
    /\ UNCHANGED <<store, settings, contact, controls, isModalOpen, selectedTender, error,
                   issued>>

----------------------------------------------------------------------------
(* Contact info: parseContactInfo and the cells of the modal that read it *)

\* JavaScript values a contact_info payload can be.  A string is a sequence
\* of pieces: the JSON punctuation marks one by one, and runs of other
\* characters as one piece each.
Undefined == [type |-> "undefined"]
JsNull    == [type |-> "null"]
Str(s)    == [type |-> "string", chars |-> s]
NumV(n)   == [type |-> "number", n |-> n]
Obj(f)    == [type |-> "object", fields |-> f]

Quote        == "\""
Punctuation  == {"{", "}", ":", ",", Quote}
IsWord(w)    == w \notin Punctuation
EmptyFields  == [x \in {} |-> Undefined]
With(f, name, v) ==
    [x \in DOMAIN f \cup {name} |-> IF x = name THEN v ELSE f[x]]

\* typeof v === 'string', and the truthiness of v
IsString(v) == v.type = "string"
Truthy(v) ==
    CASE v.type = "undefined" -> FALSE
      [] v.type = "null"      -> FALSE
      [] v.type = "string"    -> v.chars # <<>>
      [] v.type = "number"    -> v.n # 0
      [] OTHER                -> TRUE

Parsed(v)   == [threw |-> FALSE, value |-> v]
SyntaxError == [threw |-> TRUE, value |-> Undefined]

\* a JSON string literal starting at piece i of s
StringAt(s, i) ==
    IF i + 2 <= Len(s) /\ s[i] = Quote /\ IsWord(s[i + 1]) /\ s[i + 2] = Quote
        THEN [ok |-> TRUE, v |-> <<s[i + 1]>>, next |-> i + 3]
    ELSE IF i + 1 <= Len(s) /\ s[i] = Quote /\ s[i + 1] = Quote
        THEN [ok |-> TRUE, v |-> <<>>, next |-> i + 2]
    ELSE [ok |-> FALSE, v |-> <<>>, next |-> i]

KeyName(v) == IF v = <<>> THEN "" ELSE v[1]

\* the members of a JSON object from piece i on, up to the closing brace that
\* ends s; a repeated key keeps its last value
RECURSIVE MembersAt(_, _, _)
MembersAt(s, i, acc) ==
    LET key == StringAt(s, i) IN
    IF ~key.ok \/ key.next > Len(s) \/ s[key.next] # ":" THEN SyntaxError
    ELSE LET val == StringAt(s, key.next + 1) IN
         IF ~val.ok \/ val.next > Len(s) THEN SyntaxError
         ELSE LET acc2 == With(acc, KeyName(key.v), Str(val.v)) IN
              IF val.next = Len(s) /\ s[val.next] = "}" THEN Parsed(Obj(acc2))
              ELSE IF s[val.next] = "," THEN MembersAt(s, val.next + 1, acc2)
              ELSE SyntaxError

\* JSON.parse(text) for the texts that occur: null, a number, a string
\* literal, an object whose values are string literals; anything else,
\* the empty text included, is a SyntaxError
JSONParse(s) ==
    IF s = <<"null">> THEN Parsed(JsNull)
    ELSE IF s = <<"42">> THEN Parsed(NumV(42))
    ELSE IF s = <<"{", "}">> THEN Parsed(Obj(EmptyFields))
    ELSE IF Len(s) >= 1 /\ s[1] = "{" THEN MembersAt(s, 2, EmptyFields)
    ELSE IF StringAt(s, 1).ok /\ StringAt(s, 1).next = Len(s) + 1
        THEN Parsed(Str(StringAt(s, 1).v))
    ELSE SyntaxError

\* the fields of ContactInfo, in the order the serializer writes them
ContactFieldOrder ==
    <<"organization", "contact_person", "phone", "email", "address">>

StringLiteral(s) == <<Quote>> \o s \o <<Quote>>

RECURSIVE MembersFrom(_, _, _)
MembersFrom(f, i, first) ==
    IF i > Len(ContactFieldOrder) THEN <<>>
    ELSE LET name == ContactFieldOrder[i] IN
         IF name \in DOMAIN f
            THEN (IF first THEN <<>> ELSE <<",">>)
                    \o StringLiteral(<<name>>) \o <<":">>
                    \o StringLiteral(f[name].chars)
                    \o MembersFrom(f, i + 1, FALSE)
            ELSE MembersFrom(f, i + 1, first)

\* asString of a normalized ContactInfo: the JSON text of the structure.
\* Quotes inside a value are written as they are, not escaped.
JSONStringify(o) == <<"{">> \o MembersFrom(o.fields, 1, TRUE) \o <<"}">>

\* parseContactInfo whose catch block returns the empty structure
parseContactInfoDropsRaw(contactInfo) ==
    IF IsString(contactInfo)
        THEN LET r == JSONParse(contactInfo.chars) IN
             IF r.threw THEN Obj(EmptyFields) ELSE r.value
        ELSE IF Truthy(contactInfo) THEN contactInfo ELSE Obj(EmptyFields)

\* parseContactInfo that wraps every string without trying to parse it
parseContactInfoNoParse(contactInfo) ==
    IF IsString(contactInfo)
        THEN Obj(With(EmptyFields, "organization", contactInfo))
        ELSE IF Truthy(contactInfo) THEN contactInfo ELSE Obj(EmptyFields)

parseContactInfo(contactInfo) ==
    IF IsString(contactInfo)
        THEN LET r == JSONParse(contactInfo.chars) IN
             IF r.threw THEN Obj(With(EmptyFields, "organization", contactInfo))
             ELSE r.value
        ELSE IF Truthy(contactInfo) THEN contactInfo ELSE Obj(EmptyFields)

\* v.name: a TypeError on null and undefined, undefined where v has no such
\* property
Readable(v) == v.type \notin {"null", "undefined"}
Get(v, name) ==
    IF v.type = "object" /\ name \in DOMAIN v.fields THEN v.fields[name]
    ELSE Undefined

NotSpecified  == Str(<<"Not specified">>)
SectionFields == {"contact_person", "phone", "email", "address"}

\* a payload before the detail view has rendered it
Payload(raw) ==
    [stage |-> "raw", raw |-> raw, normalized |-> Undefined,
     organization |-> Undefined, section |-> {}, text |-> <<>>,
     again |-> Undefined]

\* the render of the detail view for a tender whose
\* detailed_info.contact_info is the payload: the Organization cell, then
\* the Contact Information section when the payload is truthy
RenderDetails ==
    /\ contact.stage = "raw"
    /\ LET contactInfo == parseContactInfo(contact.raw) IN
       IF ~Readable(contactInfo)
          THEN contact' = [contact EXCEPT !.stage = "threw",
                                          !.normalized = contactInfo]
          ELSE contact' =
                [contact EXCEPT
                    !.stage = "shown",
                    !.normalized = contactInfo,
                    !.organization =
                        IF Truthy(Get(contactInfo, "organization"))
                            THEN Get(contactInfo, "organization")
                            ELSE NotSpecified,
                    !.section =
                        IF Truthy(contact.raw)
                            THEN {[field |-> n, value |-> Get(contactInfo, n)] :
                                    n \in {m \in SectionFields :
                                            Truthy(Get(contactInfo, m))}}
                            ELSE {}]
    /\ UNCHANGED <<store, settings, tenders, controls, loader, error, filteredTenders, mounted, badges,
                   inflight, issued, consoleErrors, lastOp>>

\* the normalized structure written out as a string
AsString ==
    /\ contact.stage = "shown"
    /\ contact.normalized.type = "object"
    /\ contact' = [contact EXCEPT !.stage = "string",
                                  !.text = JSONStringify(contact.normalized)]
    /\ UNCHANGED <<store, settings, tenders, controls, loader, error, filteredTenders, mounted, badges,
                   inflight, issued, consoleErrors, lastOp>>

\* parseContactInfo applied to that string
NormalizeAgain ==
    /\ contact.stage = "string"
    /\ contact' = [contact EXCEPT !.stage = "again",
                                  !.again = parseContactInfo(Str(contact.text))]
    /\ UNCHANGED <<store, settings, tenders, controls, loader, error, filteredTenders, mounted, badges,
                   inflight, issued, consoleErrors, lastOp>>

----------------------------------------------------------------------------
(* useApiData (hooks/useApi.ts) and the App component around it *)

Message(m) == [isNull |-> FALSE, message |-> m]

Request(id, kind, batch) == [id |-> id, kind |-> kind, batch |-> batch]

ListKinds == {"tenders", "pages", "keywords"}

\* no tenders response has arrived yet
NoArrival == [req |-> 0, data |-> <<>>]

\* the state of the hook: its useState cells other than tenders and error,
\* how far initializeApp has come, the requests in flight, and what is
\* remembered of the tenders requests (the last one issued, the arrival of
\* the most recently issued one among those that resolved); budget is the
\* number of refreshes and extractions a behaviour may still start
StoreOf(loading, phase, budget) ==
    [loading |-> loading, phase |-> phase, systemStatus |-> "unknown",
     pages |-> "initial", keywords |-> "initial", pending |-> {},
     issued |-> 0, budget |-> budget, lastTenders |-> 0, arrived |-> NoArrival]

StoreMounted == StoreOf(TRUE, "mounted", MaxRefreshes)
StoreLoaded  == StoreOf(FALSE, "done", MaxBatches)

\* Promise.all([loadTenders(), loadPages(), loadKeywords()]) issued as batch
WithLoads(st, batch) ==
    [st EXCEPT !.pending = @ \cup {Request(st.issued + 1, "tenders", batch),
                                  Request(st.issued + 2, "pages", batch),
                                  Request(st.issued + 3, "keywords", batch)},
               !.issued = @ + 3,
               !.lastTenders = st.issued + 1]

Without(st, r) == [st EXCEPT !.pending = @ \ {r}]

\* what the hook leaves alone; its console.error lines are not recorded
StoreStep(name) ==
    /\ lastOp' = Op(name, 0, Null)
    /\ UNCHANGED <<settings, contact, controls, loader, inflight, issued,
                   consoleErrors>>

ListFrame == UNCHANGED <<tenders, filteredTenders, mounted, badges>>

\* the effect that runs after the first render: initializeApp up to its
\* first await
InitializeApp ==
    /\ store.phase = "mounted"
    /\ store' = [store EXCEPT !.loading = TRUE, !.phase = "health",
                              !.pending = @ \cup {Request(0, "health", 0)}]
    /\ StoreStep("store") /\ ListFrame /\ UNCHANGED error

\* checkSystemStatus after its await, then initializeApp up to Promise.all
HealthSettled(r, ok) ==
    /\ r \in store.pending /\ r.kind = "health"
    /\ store' = WithLoads([Without(store, r) EXCEPT
                                !.systemStatus = IF ok THEN "healthy" ELSE "error",
                                !.phase = "listing"], 0)
    /\ StoreStep("store") /\ ListFrame /\ UNCHANGED error

\* the tenders of a listing response
ListingResponses ==
    LET first  == Tender(1, <<"E", "S", "G">>, "esg", TRUE, "2024-02-10", None, None)
        second == Tender(2, <<"B", "o", "n">>, "credit_rating", FALSE, "2024-01-10",
                         None, None)
    IN  {<<first>>, <<first, second>>}

\* loadTenders after its await, the request having resolved with data
LoadTendersResolved(r, data) ==
    /\ r \in store.pending /\ r.kind = "tenders"
    /\ data \in ListingResponses
    /\ tenders' = data
    /\ IF mounted
         THEN Render(data, searchTerm, selectedCategory, selectedView, sortBy)
         ELSE UNCHANGED <<filteredTenders, mounted, badges>>
    /\ store' = [Without(store, r) EXCEPT
                    !.arrived = IF r.id >= @.req THEN [req |-> r.id, data |-> data]
                                ELSE @]
    /\ StoreStep("store") /\ UNCHANGED error

\* loadTenders whose catch block empties the collection
LoadTendersRejectedClears(r) ==
    /\ r \in store.pending /\ r.kind = "tenders"
    /\ store' = Without(store, r)
    /\ tenders' = <<>>
    /\ IF mounted
         THEN Render(<<>>, searchTerm, selectedCategory, selectedView, sortBy)
         ELSE UNCHANGED <<filteredTenders, mounted, badges>>
    /\ error' = Message("Failed to load tenders")
    /\ StoreStep("loadTendersRejected")

\* loadTenders after its await, the request having rejected
LoadTendersRejected(r) ==
    /\ r \in store.pending /\ r.kind = "tenders"
    /\ store' = Without(store, r)
    /\ error' = Message("Failed to load tenders")
    /\ StoreStep("loadTendersRejected") /\ ListFrame

\* loadPages and loadKeywords after their await
LoadListResolved(r) ==
    /\ r \in store.pending /\ r.kind \in {"pages", "keywords"}
    /\ store' = IF r.kind = "pages"
                    THEN [Without(store, r) EXCEPT !.pages = "loaded"]
                    ELSE [Without(store, r) EXCEPT !.keywords = "loaded"]
    /\ StoreStep("store") /\ ListFrame /\ UNCHANGED error

\* LoadListRejected that lets the rejection through: Promise.all rejects and
\* initializeApp never reaches setLoading(false)
LoadListRejectedRethrows(r) ==
    /\ r \in store.pending /\ r.kind \in {"pages", "keywords"}
    /\ store' = [Without(store, r) EXCEPT
                    !.phase = IF r.batch = 0 THEN "aborted" ELSE @]
    /\ error' = Message(IF r.kind = "pages" THEN "Failed to load pages"
                        ELSE "Failed to load keywords")
    /\ StoreStep("store") /\ ListFrame

\* the catch blocks of loadPages and loadKeywords
LoadListRejected(r) ==
    /\ r \in store.pending /\ r.kind \in {"pages", "keywords"}
    /\ store' = Without(store, r)
    /\ error' = Message(IF r.kind = "pages" THEN "Failed to load pages"
                        ELSE "Failed to load keywords")
    /\ StoreStep("store") /\ ListFrame


\* initializeApp after Promise.all: the three loads of the initial batch
\* have settled
InitializeAppDone ==
    /\ store.phase = "listing"
    /\ \A r \in store.pending : r.batch # 0
    /\ store' = [store EXCEPT !.loading = FALSE, !.phase = "done"]
    /\ StoreStep("store") /\ ListFrame /\ UNCHANGED error

\* refreshData of App, reached from the Pages and Keywords tabs once the
\* main content is shown
RefreshData ==
    /\ ~store.loading
    /\ store.budget > 0
    /\ store' = WithLoads([store EXCEPT !.budget = @ - 1], store.issued + 1)
    /\ StoreStep("store") /\ ListFrame /\ UNCHANGED error

\* triggerExtraction up to its first await (the Dashboard button)
TriggerExtraction ==
    /\ ~store.loading
    /\ store.budget > 0
    /\ store' = [store EXCEPT
                    !.budget = @ - 1,
                    !.issued = @ + 1,
                    !.pending = @ \cup {Request(store.issued + 1, "extraction",
                                                store.issued + 1)}]
    /\ StoreStep("store") /\ ListFrame /\ UNCHANGED error

\* triggerExtraction after its first await: the reload, or the catch block
ExtractionSettled(r, ok) ==
    /\ r \in store.pending /\ r.kind = "extraction"
    /\ store' = IF ok THEN WithLoads(Without(store, r), r.batch)
                ELSE Without(store, r)
    /\ error' = IF ok THEN error ELSE Message("Failed to trigger extraction")
    /\ StoreStep("store") /\ ListFrame

\* the x button of the error notice: setError(null)
DismissError ==
    /\ error # Null
    /\ error' = Null
    /\ StoreStep("dismissError") /\ ListFrame /\ UNCHANGED store

----------------------------------------------------------------------------
(* Settings (components/Settings.tsx): the recipient lists *)

\* requests the component may issue in one behaviour
MaxSettingsRequests == 2

\* what is typed in an input: a sequence of one-character strings
Address1 == <<"a", "@", "b", ".", "c">>
Address2 == <<"d", "@", "b", ".", "c">>
EmailInputs == {<<" ">>, <<"a", "@", "b">>, Address1, Address2}

EmailCategories == {"esg", "credit_rating"}

\* the key of emailErrors for a category
ErrorKey(cat) == IF cat = "esg" THEN "esg" ELSE "credit"

NoErrors == [esg |-> "", credit |-> ""]

SettingsMounted ==
    [esg_emails |-> <<>>, credit_rating_emails |-> <<>>,
     newEsgEmail |-> <<>>, newCreditEmail |-> <<>>,
     emailErrors |-> NoErrors, processingEmails |-> {},
     pending |-> {}, issued |-> 0]

ListOf(s, cat) == IF cat = "esg" THEN s.esg_emails ELSE s.credit_rating_emails

WithList(s, cat, list) ==
    IF cat = "esg" THEN [s EXCEPT !.esg_emails = list]
    ELSE [s EXCEPT !.credit_rating_emails = list]

InputOf(s, cat) == IF cat = "esg" THEN s.newEsgEmail ELSE s.newCreditEmail

WithInput(s, cat, text) ==
    IF cat = "esg" THEN [s EXCEPT !.newEsgEmail = text]
    ELSE [s EXCEPT !.newCreditEmail = text]

WithError(s, errors, cat, text) ==
    [s EXCEPT !.emailErrors = [errors EXCEPT ![ErrorKey(cat)] = text]]

Includes(list, e) == \E i \in 1..Len(list) : list[i] = e

\* String.prototype.trim() leaves nothing
TrimIsEmpty(text) == \A i \in 1..Len(text) : text[i] = " "

\* /^[^\s@]+@[^\s@]+\.[^\s@]+$/
validateEmail(text) ==
    /\ \A i \in 1..Len(text) : text[i] # " "
    /\ \E k \in 2..Len(text) :
          /\ text[k] = "@"
          /\ \A i \in 1..Len(text) : text[i] = "@" => i = k
          /\ \E d \in (k + 2)..(Len(text) - 1) : text[d] = "."

\* prev.filter(email => email !== emailToRemove)
RECURSIVE FilterOut(_, _)
FilterOut(list, e) ==
    IF list = <<>> THEN <<>>
    ELSE IF Head(list) = e THEN FilterOut(Tail(list), e)
    ELSE <<Head(list)>> \o FilterOut(Tail(list), e)

\* a call of apiService made by the component; errors is the emailErrors the
\* handler closed over
SettingsRequest(id, op, cat, email, errors) ==
    [id |-> id, op |-> op, category |-> cat, email |-> email, errors |-> errors]

\* the lists the server may hold: it keeps each address once
ServerLists == {<<Address1>>, <<Address2, Address1>>}

SettingsStep(name) ==
    /\ lastOp' = Op(name, 0, Null)
    /\ UNCHANGED <<store, contact, tenders, controls, loader, error,
                   filteredTenders, mounted, badges, inflight, issued,
                   consoleErrors>>

\* onChange of the two inputs
TypeEmail(cat, text) ==
    /\ settings' =
          [WithInput(settings, cat, text) EXCEPT
              !.emailErrors = IF settings.emailErrors[ErrorKey(cat)] # ""
                              THEN [@ EXCEPT ![ErrorKey(cat)] = ""] ELSE @]
    /\ SettingsStep("typeEmail")

\* an add that adds without looking at the list
AddEmailUnchecked(cat) ==
    LET text == InputOf(settings, cat)
    IN  /\ settings.issued < MaxSettingsRequests
        /\ settings' =
              [settings EXCEPT
                  !.issued = @ + 1,
                  !.pending = @ \cup {SettingsRequest(settings.issued + 1, "add",
                                          cat, text, settings.emailErrors)}]
        /\ SettingsStep("addEmail")

\* addEsgEmail and addCreditEmail up to their await
AddEmail(cat) ==
    LET text == InputOf(settings, cat)
        errors == settings.emailErrors
    IN  /\ settings' =
              IF TrimIsEmpty(text)
                  THEN WithError(settings, errors, cat, "Email is required")
              ELSE IF ~validateEmail(text)
                  THEN WithError(settings, errors, cat,
                                 "Please enter a valid email address")
              ELSE IF Includes(ListOf(settings, cat), text)
                  THEN WithError(settings, errors, cat, "Email already exists")
              ELSE [settings EXCEPT
                      !.issued = @ + 1,
                      !.pending = @ \cup {SettingsRequest(settings.issued + 1,
                                              "add", cat, text, errors)}]
        /\ (~TrimIsEmpty(text) /\ validateEmail(text)
              /\ ~Includes(ListOf(settings, cat), text))
            => settings.issued < MaxSettingsRequests
        /\ SettingsStep("addEmail")

addEsgEmail == AddEmail("esg")

addCreditEmail == AddEmail("credit_rating")

\* addEsgEmail and addCreditEmail after their await
AddSettled(r, outcome) ==
    /\ r \in settings.pending /\ r.op = "add"
    /\ LET rest == [settings EXCEPT !.pending = @ \ {r}]
       IN  settings' =
              IF outcome = "success"
                  THEN WithError(
                          WithInput(WithList(rest, r.category,
                                        Append(ListOf(rest, r.category), r.email)),
                                    r.category, <<>>),
                          r.errors, r.category, "")
              ELSE IF outcome = "refused"
                  THEN WithError(rest, r.errors, r.category,
                                 "Failed to add email: message")
              ELSE WithError(rest, r.errors, r.category, "Failed to add email")
    /\ SettingsStep("addSettled")

\* removeEsgEmail and removeCreditEmail up to their await
RemoveEmail(cat, e) ==
    /\ Includes(ListOf(settings, cat), e)
    /\ settings' =
          IF e \in settings.processingEmails THEN settings
          ELSE [settings EXCEPT
                  !.processingEmails = @ \cup {e},
                  !.issued = @ + 1,
                  !.pending = @ \cup {SettingsRequest(settings.issued + 1,
                                          "remove", cat, e, NoErrors)}]
    /\ e \notin settings.processingEmails => settings.issued < MaxSettingsRequests
    /\ SettingsStep("removeEmail")

removeEsgEmail(e) == RemoveEmail("esg", e)

removeCreditEmail(e) == RemoveEmail("credit_rating", e)

\* removeEsgEmail and removeCreditEmail after their await, finally included
RemoveSettled(r, outcome) ==
    /\ r \in settings.pending /\ r.op = "remove"
    /\ LET rest == [settings EXCEPT !.pending = @ \ {r},
                                    !.processingEmails = @ \ {r.email}]
       IN  settings' =
              IF outcome = "success"
                  THEN WithList(rest, r.category,
                                FilterOut(ListOf(rest, r.category), r.email))
              ELSE rest
    /\ SettingsStep("removeSettled")

\* loadEmailSettings up to its await: the mount effect and the Refresh button
LoadEmailSettings ==
    /\ settings.issued < MaxSettingsRequests
    /\ settings' =
          [settings EXCEPT
              !.issued = @ + 1,
              !.pending = @ \cup {SettingsRequest(settings.issued + 1, "load",
                                      "esg", <<>>, NoErrors)}]
    /\ SettingsStep("loadEmailSettings")

\* loadEmailSettings after its await: response.settings, or the defaults
LoadSettled(r, outcome, esg, credit) ==
    /\ r \in settings.pending /\ r.op = "load"
    /\ LET rest == [settings EXCEPT !.pending = @ \ {r}]
       IN  settings' =
              IF outcome = "success"
                  THEN [rest EXCEPT !.esg_emails = esg,
                                    !.credit_rating_emails = credit]
              ELSE [rest EXCEPT !.esg_emails = <<>>,
                                !.credit_rating_emails = <<>>]
    /\ SettingsStep("loadSettled")

Outcomes == {"success", "refused", "rejected"}

NextSettings ==
    \/ \E cat \in EmailCategories, text \in EmailInputs : TypeEmail(cat, text)
    \/ addEsgEmail
    \/ addCreditEmail
    \/ \E r \in settings.pending, outcome \in Outcomes : AddSettled(r, outcome)
    \/ \E e \in {Address1, Address2} : removeEsgEmail(e)
    \/ \E e \in {Address1, Address2} : removeCreditEmail(e)
    \/ \E r \in settings.pending, outcome \in Outcomes : RemoveSettled(r, outcome)
    \/ LoadEmailSettings
    \/ \E r \in settings.pending, outcome \in Outcomes, esg \in ServerLists :
          LoadSettled(r, outcome, esg, <<>>)

----------------------------------------------------------------------------
(* Specifications *)

Text(a, b, c) == <<a, b, c>>

\* the collection of the modal specification: two processed tenders and one
\* that is not yet processed
LoaderTenders ==
    << Tender(1, Text("E", "S", "G"), "esg", TRUE, "2024-01-10", None,
              Some(DetailedInfo(None, None, None))),
       Tender(2, Text("B", "o", "n"), "credit_rating", TRUE, "2024-02-10", None,
              None),
       Tender(3, Text("D", "e", "s"), "both", FALSE, "2024-03-10", None, None) >>

\* TenderList mounted with the collection T: the useState initial values and
\* the first render
InitApp(collections, payloads, stores) ==
    /\ contact \in {Payload(raw) : raw \in payloads}
    /\ store \in stores
    /\ settings = SettingsMounted
    /\ tenders \in collections
    /\ searchTerm = <<>>
    /\ selectedCategory = "all"
    /\ selectedView = "processed"
    /\ sortBy = "newest"
    /\ isModalOpen = FALSE
    /\ selectedTender = Null
    /\ detailedTender = Null
    /\ loadingDetails = FALSE
    /\ error = Null
    /\ \E r \in getFilteredTenders(tenders, "processed", <<>>, "all", "newest",
                                   FilteredTendersLine) :
            LET threw == r.threw \/ CardsOf(r.list) = CardThrew
            IN  /\ mounted = ~threw
                /\ filteredTenders = IF threw THEN <<>> ELSE r.list
                /\ badges = IF threw THEN <<>> ELSE CardsOf(r.list)
    /\ inflight = {}
    /\ issued = 0
    /\ consoleErrors = {}
    /\ lastOp = Op("mount", 0, Null)

\* the specifications of the list, the loader and the payload start with
\* the initial load done
InitOf(collections, payloads) == InitApp(collections, payloads, {StoreLoaded})

\* the specifications of the list and of the loader carry no payload
InitWith(collections) == InitOf(collections, {Undefined})

Init == InitWith({LoaderTenders})

\* control values the operator picks while the modal is exercised
ModalSearchTerms == {<<>>, <<"e", "S">>}
ModalCategories  == {"all", "credit_rating"}
ModalViews       == {"processed", "all"}
ModalSortTypes   == {"newest", "urgent"}

Next ==
    \/ \E term \in ModalSearchTerms : SetSearchTerm(term)
    \/ \E category \in ModalCategories : SetSelectedCategory(category)
    \/ \E view \in ModalViews : SetSelectedView(view)
    \/ \E sort \in ModalSortTypes : SetSortBy(sort)
    \/ ClearAllFilters
    \/ \E t \in Range(tenders) : OpenModal(t)
    \/ CloseModal
    \/ \E f \in inflight : \E d \in DetailResponses(f.tender) : DetailResolved(f, d)
    \/ \E f \in inflight : DetailRejected(f)

Spec == Init /\ [][Next]_vars

----------------------------------------------------------------------------
(* Specifications of the derivation: the collection is drawn from a bounded *)
(* set, the operator works the four controls                                *)

NextDerive ==
    \/ \E term \in SearchTerms : SetSearchTerm(term)
    \/ \E category \in Categories : SetSelectedCategory(category)
    \/ \E view \in Views : SetSelectedView(view)
    \/ \E sort \in SortTypes : SetSortBy(sort)
    \/ ClearAllFilters

\* the i-th tender of a drawn collection; what a specification does not vary
\* is fixed by the position
TitleAt(i)    == IF i % 2 = 1 THEN Text("E", "S", "G") ELSE Text("B", "o", "n")
CategoryAt(i) == IF i % 3 = 1 THEN "esg"
                 ELSE IF i % 3 = 2 THEN "credit_rating" ELSE "both"
CreatedAt(i)  == IF i % 3 = 1 THEN "2024-02-10"
                 ELSE IF i % 3 = 2 THEN "2024-01-10" ELSE "2024-03-10"

TenderAt(i, kind) ==
    Tender(i, TitleAt(i), CategoryAt(i), kind.is_processed, CreatedAt(i),
           kind.tender_date, kind.detailed_info)

Kind(processed, tdate, info) ==
    [is_processed |-> processed, tender_date |-> tdate, detailed_info |-> info]

CollectionsOf(kinds, maxLen) ==
    UNION { { [i \in 1..n |-> TenderAt(i, k[i])] : k \in [1..n -> kinds] } :
            n \in 0..maxLen }

\* view specification: processing state and deadline status vary
ViewKinds ==
    {Kind(FALSE, None, None), Kind(TRUE, None, None),
     Kind(TRUE, None, Some(DetailedInfo(None, None, None)))}
    \cup
    {Kind(TRUE, None, Some(DetailedInfo(None, None, Some(DateValidation(st, None))))) :
        st \in {None, Some("closed")} \cup {Some(x) : x \in DeadlineStatuses}}

SpecView == InitWith(CollectionsOf(ViewKinds, MaxLen)) /\ [][NextDerive]_vars

\* urgency specification: the urgency level varies
UrgencyKinds ==
    {Kind(TRUE, None, Some(DetailedInfo(None, None, None)))}
    \cup
    {Kind(TRUE, None, Some(DetailedInfo(None, None, Some(DateValidation(None, lv))))) :
        lv \in {None, Some("low"), Some("urgent"), Some("expired"), Some("critical")}}

SpecUrgency == InitWith(CollectionsOf(UrgencyKinds, MaxSortLen)) /\ [][NextDerive]_vars

\* deadline specification: detailed_info.deadline and tender_date vary
DeadlineKinds ==
    {Kind(TRUE, None, None),
     Kind(TRUE, Some("2024-01-10"), None),
     Kind(TRUE, None, Some(DetailedInfo(None, Some("2024-02-10"), None))),
     Kind(TRUE, Some("2024-01-10"), Some(DetailedInfo(None, Some("2024-03-10"), None))),
     Kind(TRUE, None, Some(DetailedInfo(None, Some("TBD"), None)))}

SpecDeadline == InitWith(CollectionsOf(DeadlineKinds, MaxSortLen)) /\ [][NextDerive]_vars

\* text specification: title, description and category vary
TextKind(title, description, category) ==
    [title |-> title, description |-> description, category |-> category]

TextTenderAt(i, kind) ==
    [Tender(i, kind.title, kind.category, TRUE, CreatedAt(i), None, None)
        EXCEPT !.description = kind.description]

TextKinds ==
    {TextKind(Text("E", "S", "G"), None, "esg"),
     TextKind(Text("B", "o", "n"), None, "esg"),
     TextKind(Text("B", "o", "n"), Some(Text("D", "E", "S")), "credit_rating"),
     TextKind(Text("B", "o", "n"), Some(<<>>), "credit_rating"),
     TextKind(Text("E", "S", "G"), Some(Text("B", "o", "n")), "both"),
     TextKind(Text("B", "o", "n"), None, "both"),
     TextKind(Text("E", "S", "G"), None, "other"),
     TextKind(Text("B", "o", "n"), Some(Text("D", "E", "S")), "other")}

TextCollections ==
    UNION { { [i \in 1..n |-> TextTenderAt(i, k[i])] : k \in [1..n -> TextKinds] } :
            n \in 0..MaxLen }

SpecText == InitWith(TextCollections) /\ [][NextDerive]_vars

\* creation specification: created_at varies
CreatedDates == {"2024-01-10", "2024-02-10", "2024-03-10"}

CreatedCollections ==
    UNION { { [i \in 1..n |->
                [TenderAt(i, Kind(TRUE, None, None)) EXCEPT !.created_at = k[i]]] :
              k \in [1..n -> CreatedDates] } : n \in 0..MaxSortLen }

SpecCreated == InitWith(CreatedCollections) /\ [][NextDerive]_vars

\* badge specification: urgency level and days_until_deadline vary
BadgeLevels ==
    {None, Some("critical"), Some("constructor")}
        \cup {Some(l) : l \in UrgencyConfigKeys}

BadgeDays == {Some(Null), Some(Num(0 - 3)), Some(Num(0)), Some(Num(5))}

BadgeKinds ==
    {Kind(TRUE, None, None), Kind(TRUE, None, Some(DetailedInfo(None, None, None)))}
    \cup
    {Kind(TRUE, None, Some(DetailedInfo(None, None,
            Some(DateValidationDays(None, lv, None))))) : lv \in BadgeLevels}
    \cup
    {Kind(TRUE, None, Some(DetailedInfo(None, None,
            Some(DateValidationDays(None, Some(l), d))))) :
        l \in {"urgent", "critical"}, d \in BadgeDays}

SpecBadge == InitWith(CollectionsOf(BadgeKinds, MaxBadgeLen)) /\ [][NextDerive]_vars

\* store specification: the hook from its mount on
NextStore ==
    \/ InitializeApp
    \/ \E r \in store.pending, ok \in BOOLEAN : HealthSettled(r, ok)
    \/ \E r \in store.pending, data \in ListingResponses : LoadTendersResolved(r, data)
    \/ \E r \in store.pending : LoadTendersRejected(r)
    \/ \E r \in store.pending : LoadListResolved(r)
    \/ \E r \in store.pending : LoadListRejected(r)
    \/ InitializeAppDone
    \/ RefreshData
    \/ TriggerExtraction
    \/ \E r \in store.pending, ok \in BOOLEAN : ExtractionSettled(r, ok)
    \/ DismissError

InitStore == InitApp({<<>>}, {Undefined}, {StoreMounted})

SpecStore == InitStore /\ [][NextStore]_vars

\* every request settles, and a continuation that can run does run
Settle ==
    \/ \E r \in store.pending, ok \in BOOLEAN : HealthSettled(r, ok)
    \/ \E r \in store.pending, data \in ListingResponses : LoadTendersResolved(r, data)
    \/ \E r \in store.pending : LoadTendersRejected(r)
    \/ \E r \in store.pending : LoadListResolved(r)
    \/ \E r \in store.pending : LoadListRejected(r)
    \/ \E r \in store.pending, ok \in BOOLEAN : ExtractionSettled(r, ok)

SpecStoreFair ==
    /\ SpecStore
    /\ WF_vars(InitializeApp)
    /\ WF_vars(Settle)
    /\ WF_vars(InitializeAppDone)

\* overlap specification: the initial load is done, refreshes and
\* extractions overlap
NextOverlap ==
    \/ \E r \in store.pending, data \in ListingResponses : LoadTendersResolved(r, data)
    \/ \E r \in store.pending : LoadTendersRejected(r)
    \/ \E r \in store.pending : LoadListResolved(r)
    \/ \E r \in store.pending : LoadListRejected(r)
    \/ RefreshData
    \/ TriggerExtraction
    \/ \E r \in store.pending, ok \in BOOLEAN : ExtractionSettled(r, ok)
    \/ DismissError

SpecOverlap == InitApp(ListingResponses, {Undefined}, {StoreLoaded}) /\ [][NextOverlap]_vars

\* contact specification: the payload varies, the detail view renders it
\* and the normalized structure makes the round trip through a string
ContactValues(name) ==
    CASE name = "organization"   -> {"Acme", "Ministry of Finance"}
      [] name = "contact_person" -> {"Ann"}
      [] name = "phone"          -> {"555"}
      [] name = "email"          -> {"a@b"}
      [] name = "address"        -> {"Main St"}

ContactObjects ==
    UNION { { Obj([n \in D |-> Str(<<g[n]>>)]) :
                g \in {h \in [D -> UNION {ContactValues(n) : n \in D}] :
                        \A n \in D : h[n] \in ContactValues(n)} } :
            D \in SUBSET Range(ContactFieldOrder) }

\* the JSON texts of these objects, and one with its keys in another order
ContactTexts ==
    {Str(JSONStringify(o)) : o \in ContactObjects}
    \cup {Str(<<"{", Quote, "phone", Quote, ":", Quote, "555", Quote, ",",
                Quote, "organization", Quote, ":", Quote, "Acme", Quote, "}">>)}

\* strings that are no JSON text
PlainStrings ==
    {Str(<<"Ministry of Finance">>), Str(<<>>),
     Str(<<"{", Quote, "organization", Quote>>)}

\* strings that are the JSON text of a value which is no object
ScalarTexts ==
    {Str(<<"null">>), Str(<<"42">>), Str(<<Quote, "Acme", Quote>>)}

ContactPayloads ==
    ContactObjects \cup ContactTexts \cup PlainStrings \cup ScalarTexts
        \cup {JsNull, Undefined}

NextContact == RenderDetails \/ AsString \/ NormalizeAgain

SpecContact == InitOf({<<>>}, ContactPayloads) /\ [][NextContact]_vars

----------------------------------------------------------------------------
(* Detail modal: properties *)

\* the handler that ran in the step (lastOp' is written by every action)
Ran(name) == lastOp'.op = name

\* the fetch a response belongs to is the one of the current selection: the
\* modal is open and no openModal ran after the one that started the fetch
OfCurrentSelection(req) == mounted /\ isModalOpen /\ req = issued

\* C1: once the modal is closed, the response (success or rejection) of a
\* detail fetch that was started before the close changes nothing in the
\* loader: isModalOpen, selectedTender, detailedTender and loadingDetails
\* keep their idle values.
C1_StaleResponseAfterClose ==
    [][ (~isModalOpen /\ (Ran("detailResolved") \/ Ran("detailRejected")))
            => UNCHANGED loader ]_vars

\* C2: last selection wins: whenever the modal is open and a detail record is
\* displayed, that record has the id of the currently selected tender.
C2_LastSelectionWins ==
    (mounted /\ isModalOpen /\ ~loadingDetails /\ detailedTender # Null)
        => detailedTender.id = selectedTender.id

\* C3: when the detail fetch of the current selection rejects, the modal
\* stays open on the summary tender passed to openModal, the spinner is off,
\* the failure is logged and no error notice is set.
C3_RejectFallsBack ==
    [][ (Ran("detailRejected") /\ OfCurrentSelection(lastOp'.req))
            => /\ detailedTender' = selectedTender
               /\ detailedTender' = lastOp'.tender
               /\ selectedTender' = selectedTender
               /\ ~loadingDetails'
               /\ isModalOpen'
               /\ mounted'
               /\ error' = error
               /\ "Failed to load tender details" \in consoleErrors' ]_vars

C3_Witness ==
    /\ lastOp.op = "detailRejected"
    /\ lastOp.req = issued
    /\ mounted /\ isModalOpen /\ ~loadingDetails
    /\ detailedTender = selectedTender
    /\ detailedTender \in Range(tenders)
    /\ error = Null

\* C4: openModal(t) puts the loader into loading in one step, before the
\* fetch settles: selectedTender = t, the modal is open, loadingDetails is
\* true and the fetch is in flight; an open modal without spinner (loaded or
\* fallback) is entered only from loading.
C4_OpenEntersLoading ==
    [][ /\ Ran("openModal") =>
            /\ selectedTender' = lastOp'.tender
            /\ isModalOpen'
            /\ loadingDetails'
            /\ Fetch(lastOp'.req, lastOp'.tender) \in inflight'
        /\ ((isModalOpen' /\ ~loadingDetails') /\ ~(isModalOpen /\ ~loadingDetails))
            => (isModalOpen /\ loadingDetails) ]_vars

C4_Witness ==
    /\ lastOp.op = "openModal"
    /\ isModalOpen /\ loadingDetails
    /\ selectedTender = lastOp.tender
    /\ detailedTender = Null
    /\ Fetch(issued, selectedTender) \in inflight

\* C5: when the detail fetch of the current selection succeeds,
\* detailedTender becomes exactly the record the collaborator returned and
\* loadingDetails becomes false; selectedTender and the open modal stay.
C5_ResolveShowsEnriched ==
    [][ (Ran("detailResolved") /\ OfCurrentSelection(lastOp'.req))
            => /\ detailedTender' = lastOp'.tender
               /\ detailedTender' \in DetailResponses(selectedTender)
               /\ ~loadingDetails'
               /\ selectedTender' = selectedTender
               /\ isModalOpen' ]_vars

C5_Witness ==
    /\ lastOp.op = "detailResolved"
    /\ lastOp.req = issued
    /\ mounted /\ isModalOpen /\ ~loadingDetails
    /\ detailedTender = lastOp.tender
    /\ detailedTender # selectedTender
    /\ detailedTender.id = selectedTender.id

\* C6: closeModal resets the loader to idle from loading, loaded and
\* fallback alike, and leaves search, category, view and sort unchanged.
C6_CloseResets ==
    [][ Ran("closeModal")
            => /\ ~isModalOpen'
               /\ selectedTender' = Null
               /\ detailedTender' = Null
               /\ ~loadingDetails'
               /\ UNCHANGED controls ]_vars

\* closed while the fetch was still loading, with controls off their defaults
C6_Witness ==
    /\ lastOp.op = "closeModal"
    /\ ~isModalOpen /\ selectedTender = Null /\ detailedTender = Null
    /\ ~loadingDetails
    /\ inflight # {}
    /\ searchTerm # <<>> /\ selectedView = "all"

----------------------------------------------------------------------------
(* Derivation: properties *)

HasDateValidation(t) == dateValidationOf(t).present

StatusIn(t, statuses) ==
    /\ HasDateValidation(t)
    /\ dateValidationOf(t).v.deadline_status.present
    /\ dateValidationOf(t).v.deadline_status.v \in statuses

\* the predicate each view stands for
ViewPredicate(t, view) ==
    CASE view = "processed" -> t.is_processed = TRUE
      [] view = "all"       -> TRUE
      [] view = "active"    -> ~HasDateValidation(t) \/ StatusIn(t, {"active", "urgent"})
      [] view = "expired"   -> HasDateValidation(t) /\ StatusIn(t, {"expired"})

\* C7: with empty search and category 'all', the derived list holds exactly
\* the tenders of the collection that satisfy the predicate of the selected
\* view, each once (expired never holds a tender without date_validation).
C7_ViewSelection ==
    (mounted /\ searchTerm = <<>> /\ selectedCategory = "all")
        => /\ Range(filteredTenders) =
                {t \in Range(tenders) : ViewPredicate(t, selectedView)}
           /\ Len(filteredTenders) =
                Cardinality({t \in Range(tenders) : ViewPredicate(t, selectedView)})

\* the expired view kept one tender and left out one without date_validation
C7_Witness ==
    /\ mounted /\ searchTerm = <<>> /\ selectedCategory = "all"
    /\ selectedView = "expired"
    /\ Len(tenders) = 2 /\ Len(filteredTenders) = 1
    /\ \E t \in Range(tenders) : ~HasDateValidation(t)

\* C8: the derivation is total: for every collection and every combination
\* of view, search term, category and sortBy the render computes a list and
\* never throws.
C8_DerivationTotal == mounted

ClaimedScore(t) ==
    LET level == IF HasDateValidation(t) /\ dateValidationOf(t).v.urgency_level.present
                    THEN dateValidationOf(t).v.urgency_level.v ELSE "" IN
    CASE level = "urgent"  -> 5
      [] level = "high"    -> 4
      [] level = "medium"  -> 3
      [] level = "low"     -> 2
      [] level = "expired" -> 1
      [] OTHER -> 0

\* C9: with sortBy = urgent the derived list exists and is in descending
\* order of the urgency score (urgent 5, high 4, medium 3, low 2, expired 1,
\* anything else 0).
C9_UrgentOrder ==
    sortBy = "urgent"
        => /\ mounted
           /\ \A i, j \in 1..Len(filteredTenders) :
                i < j => ClaimedScore(filteredTenders[i]) >= ClaimedScore(filteredTenders[j])

HasEffectiveDeadline(t) == TruthyString(effectiveDeadline(t))

\* C10: with sortBy = deadline every tender with an effective deadline
\* (detailed_info.deadline, else tender_date) precedes every tender with
\* neither field, and the effective dates are in ascending order.
C10_DeadlineOrder ==
    (mounted /\ sortBy = "deadline")
        => \A i, j \in 1..Len(filteredTenders) : i < j =>
            LET a == filteredTenders[i]
                b == filteredTenders[j]
            IN  /\ HasEffectiveDeadline(b) => HasEffectiveDeadline(a)
                /\ (HasEffectiveDeadline(a) /\ HasEffectiveDeadline(b)
                    /\ ~DateGetTime(effectiveDeadline(a).v).nan
                    /\ ~DateGetTime(effectiveDeadline(b).v).nan)
                        => DateGetTime(effectiveDeadline(a).v).n
                            <= DateGetTime(effectiveDeadline(b).v).n

Unparseable(t) ==
    HasEffectiveDeadline(t) /\ DateGetTime(effectiveDeadline(t).v).nan

Parseable(t) ==
    HasEffectiveDeadline(t) /\ ~DateGetTime(effectiveDeadline(t).v).nan

\* C11: with sortBy = deadline a tender whose effective deadline does not
\* parse counts as having no deadline: it comes after every tender whose
\* deadline parses, and the deadlines that parse stay in ascending order.
C11_UnparseableSortsLast ==
    (mounted /\ sortBy = "deadline")
        => \A i, j \in 1..Len(filteredTenders) : i < j =>
            LET a == filteredTenders[i]
                b == filteredTenders[j]
            IN  /\ ~(Unparseable(a) /\ Parseable(b))
                /\ (Parseable(a) /\ Parseable(b) /\
                    \E k \in 1..Len(filteredTenders) : Unparseable(filteredTenders[k]))
                        => DateGetTime(effectiveDeadline(a).v).n
                            <= DateGetTime(effectiveDeadline(b).v).n

Recognised == {"active", "urgent", "expired"}

\* C12: a tender with date-validation data whose deadline_status is 'unknown',
\* missing or outside {active, urgent, expired} is in neither the active nor
\* the expired view, and no tender is kept by both of these views.
C12_UnknownStatusFailsClosed ==
    /\ (mounted /\ selectedView \in {"active", "expired"})
        => \A t \in Range(filteredTenders) :
                HasDateValidation(t) => StatusIn(t, Recognised)
    /\ \A t \in Range(tenders) :
            ~(ViewKeeps(t, "active") /\ ViewKeeps(t, "expired"))

\* the active view kept one tender and left out one whose status is not
\* recognised
C12_Witness ==
    /\ mounted /\ selectedView = "active"
    /\ searchTerm = <<>> /\ selectedCategory = "all"
    /\ Len(tenders) = 2 /\ Len(filteredTenders) = 1
    /\ \E t \in Range(tenders) :
            HasDateValidation(t) /\ ~StatusIn(t, Recognised)

\* hay contains needle as a substring when letter case is ignored
ContainsIgnoringCase(hay, needle) ==
    \E off \in 0..Len(hay) :
        /\ off + Len(needle) <= Len(hay)
        /\ \A k \in 1..Len(needle) : LowerChar(hay[off + k]) = LowerChar(needle[k])

TextMatches(t, term) ==
    \/ term = <<>>
    \/ ContainsIgnoringCase(t.title, term)
    \/ t.description.present /\ ContainsIgnoringCase(t.description.v, term)

SearchSelection ==
    {t \in Range(tenders) :
        ViewPredicate(t, selectedView) /\ TextMatches(t, searchTerm)}

\* C13: with category 'all', the derived list holds exactly the tenders that
\* passed the view stage and whose title, or description when present,
\* contains the search term ignoring case; an empty term keeps them all.
C13_SearchSelection ==
    (mounted /\ selectedCategory = "all")
        => /\ Range(filteredTenders) = SearchSelection
           /\ Len(filteredTenders) = Cardinality(SearchSelection)

\* a search kept one tender through its description only and dropped one
\* that has no description
C13_Witness ==
    /\ mounted /\ selectedCategory = "all" /\ searchTerm # <<>>
    /\ Len(tenders) = 2 /\ Len(filteredTenders) = 1
    /\ ~ContainsIgnoringCase(filteredTenders[1].title, searchTerm)
    /\ \E t \in Range(tenders) :
            ~t.description.present /\ t \notin Range(filteredTenders)

CategorySelection ==
    {t \in Range(tenders) :
        /\ ViewPredicate(t, selectedView)
        /\ selectedCategory = "all" \/ t.category = selectedCategory}

\* C14: with an empty search term, the derived list holds exactly the tenders
\* that passed the view stage and whose category equals the selected one
\* ('all' keeps every one); category 'both' or an unknown category is not
\* kept under 'esg' or 'credit_rating', and no category makes a derivation
\* fail.
C14_CategorySelection ==
    /\ sortBy # "urgent" => mounted
    /\ (mounted /\ searchTerm = <<>>)
        => /\ Range(filteredTenders) = CategorySelection
           /\ Len(filteredTenders) = Cardinality(CategorySelection)

\* the esg filter kept one tender and dropped one of category 'both' or of
\* an unknown category
C14_Witness ==
    /\ mounted /\ searchTerm = <<>> /\ selectedCategory = "esg"
    /\ Len(tenders) = 2 /\ Len(filteredTenders) = 1
    /\ \E t \in Range(tenders) : t.category \in {"both", "other"}

\* the sort key of a tender under each sortBy
SortKey(t, sort) ==
    CASE sort \in {"newest", "oldest"} -> Some(t.created_at)
      [] sort = "deadline" ->
            IF HasEffectiveDeadline(t) THEN effectiveDeadline(t) ELSE None
      [] sort = "urgent"   -> Some(ClaimedScore(t))

KeepsInputOrder ==
    \A i, j \in 1..Len(filteredTenders) :
        (i < j /\ SortKey(filteredTenders[i], sortBy) = SortKey(filteredTenders[j], sortBy))
            => filteredTenders[i].id < filteredTenders[j].id

\* C15: under every sortBy a derived list is produced in which two tenders
\* with equal sort keys stand in the order they have in the collection.
C15_SortStable == mounted /\ KeepsInputOrder

\* what deriving from the current collection and controls gives
DerivedNow ==
    getFilteredTenders(tenders, selectedView, searchTerm, selectedCategory,
                       sortBy, FilteredTendersLine)

CreatedTime(t) == DateGetTime(t.created_at).n

Reverse(s) == [i \in 1..Len(s) |-> s[Len(s) + 1 - i]]

ListsUnder(sort) ==
    {r.list : r \in {x \in getFilteredTenders(tenders, selectedView, searchTerm,
                                              selectedCategory, sort,
                                              FilteredTendersLine) : ~x.threw}}

DistinctCreated ==
    \A i, j \in 1..Len(tenders) :
        i # j => tenders[i].created_at # tenders[j].created_at

\* C17: with sortBy = newest the derived list is in descending order of
\* created_at, with sortBy = oldest in ascending order, and when all
\* created_at values differ the one list is the other read backwards.
C17_CreatedOrder ==
    /\ (mounted /\ sortBy = "newest")
        => \A i, j \in 1..Len(filteredTenders) :
            i < j => CreatedTime(filteredTenders[i]) >= CreatedTime(filteredTenders[j])
    /\ (mounted /\ sortBy = "oldest")
        => \A i, j \in 1..Len(filteredTenders) :
            i < j => CreatedTime(filteredTenders[i]) <= CreatedTime(filteredTenders[j])
    /\ DistinctCreated
        => /\ ListsUnder("newest") # {} /\ ListsUnder("oldest") # {}
           /\ \A n \in ListsUnder("newest") : \A o \in ListsUnder("oldest") :
                n = Reverse(o)

\* sortBy = oldest turned a collection of three tenders round: the input was
\* in descending order of created_at
C17_Witness ==
    /\ mounted /\ sortBy = "oldest"
    /\ Len(filteredTenders) = 3
    /\ DistinctCreated
    /\ filteredTenders = Reverse(tenders)

----------------------------------------------------------------------------
(* Contact info: properties *)

OnlyOrganization(v, raw) ==
    /\ v.type = "object"
    /\ DOMAIN v.fields = {"organization"}
    /\ v.fields["organization"] = raw

ReorderedText ==
    Str(<<"{", Quote, "phone", Quote, ":", Quote, "555", Quote, ",",
          Quote, "organization", Quote, ":", Quote, "Acme", Quote, "}">>)

\* C18: parseContactInfo returns a structured object unchanged, the parsed
\* structure for a string that is the JSON text of one, the structure with
\* the single field organization = raw for a string that is no JSON text,
\* and the empty structure for null and undefined.
C18_NormalizeByCase ==
    contact.stage # "raw" =>
        LET raw == contact.raw
            out == contact.normalized
        IN  /\ raw.type = "object" => out = raw
            /\ \A o \in ContactObjects :
                    raw = Str(JSONStringify(o)) => out = o
            /\ raw = ReorderedText
                    => out = Obj(With(With(EmptyFields, "phone", Str(<<"555">>)),
                                      "organization", Str(<<"Acme">>)))
            /\ raw \in PlainStrings => OnlyOrganization(out, raw)
            /\ raw \in {JsNull, Undefined}
                    => out.type = "object" /\ DOMAIN out.fields = {}

\* the string 'Ministry of Finance' was normalized and the Organization cell
\* shows it
C18_Witness ==
    /\ contact.stage = "shown"
    /\ contact.raw = Str(<<"Ministry of Finance">>)
    /\ OnlyOrganization(contact.normalized, contact.raw)
    /\ contact.organization = contact.raw

\* C19: for every payload the detail view renders without an exception, the
\* normalized value is a structured object, and a non-empty string payload
\* is shown somewhere.
C19_NormalizerTotal ==
    contact.stage # "raw" =>
        /\ contact.stage # "threw"
        /\ contact.normalized.type = "object"
        /\ (IsString(contact.raw) /\ Truthy(contact.raw))
                => (contact.organization # NotSpecified \/ contact.section # {})

\* no field of the structure holds a JSON punctuation mark
NoSpecialCharacters(v) ==
    \A n \in DOMAIN v.fields :
        \A i \in 1..Len(v.fields[n].chars) : IsWord(v.fields[n].chars[i])

\* C20: a normalized structure without special characters, written out as a
\* string and normalized again, is the same structure.
C20_RoundTrip ==
    (contact.stage = "again" /\ NoSpecialCharacters(contact.normalized))
        => contact.again = contact.normalized

\* a structured payload with two fields or more came back from the round trip
C20_Witness ==
    /\ contact.stage = "again"
    /\ contact.raw.type = "object"
    /\ Cardinality(DOMAIN contact.raw.fields) >= 2
    /\ contact.again = contact.raw

----------------------------------------------------------------------------
(* Urgency badge: properties *)

LevelOf(t) ==
    IF HasDateValidation(t) THEN dateValidationOf(t).v.urgency_level ELSE None

\* the tier the badge of a tender is to show, "" for no badge
ClaimedTier(t) ==
    LET level == LevelOf(t) IN
    IF ~level.present THEN ""
    ELSE CASE level.v = "urgent"  -> "Urgent"
           [] level.v = "high"    -> "High Priority"
           [] level.v = "medium"  -> "Medium"
           [] level.v = "low"     -> "Low"
           [] level.v = "expired" -> "Expired"
           [] OTHER -> ""

\* C21: every card is rendered, with no badge when the tender has no
\* date-validation data or its urgency_level is missing or unrecognised, and
\* with the fixed tier of the level otherwise (sortBy = urgent apart, where
\* the list itself may fail).
C21_BadgeTier ==
    sortBy # "urgent" =>
        /\ mounted
        /\ \A i \in 1..Len(filteredTenders) :
            IF ClaimedTier(filteredTenders[i]) = ""
                THEN badges[i].kind = "null"
                ELSE badges[i].kind = "badge"
                        /\ badges[i].text = ClaimedTier(filteredTenders[i])

DaysOf(t) == dateValidationOf(t).v.days_until_deadline

\* C22: a badge carries the day count exactly when days_until_deadline is a
\* number >= 0, and then it is that number; a negative, null or undefined
\* days_until_deadline is not in the badge.
C22_BadgeDays ==
    mounted =>
        \A i \in 1..Len(filteredTenders) :
            badges[i].kind = "badge" =>
                LET days == DaysOf(filteredTenders[i])
                    counted == days.present /\ days.v \in {Num(n) : n \in 0..5}
                IN  badges[i].days = IF counted THEN days ELSE None

\* a badge that shows 0 days
C22_Witness ==
    /\ mounted /\ sortBy = "deadline" /\ Len(filteredTenders) = 1
    /\ badges[1].kind = "badge" /\ badges[1].days = Some(Num(0))
    /\ DaysOf(filteredTenders[1]) = Some(Num(0))

----------------------------------------------------------------------------
(* Specification of the Settings component: the lists start empty, as the *)
(* component mounts them, and every response is the server's choice       *)

SpecSettings == InitWith({<<>>}) /\ [][NextSettings]_vars

----------------------------------------------------------------------------
(* Store: properties *)

\* the cells of the hook apart from its bookkeeping of requests
StoreCells == <<store.loading, store.systemStatus, store.pages, store.keywords>>

\* C23: a failed loadTenders leaves the tenders collection and the list
\* derived from it as they were, sets the error notice to its message and
\* touches neither the loading flag nor another cell of the store; the x
\* button sets the notice back to null and changes nothing else.
C23_ListingFailureKeepsData ==
    [][ /\ Ran("loadTendersRejected")
            => /\ tenders' = tenders
               /\ filteredTenders' = filteredTenders
               /\ error' = Message("Failed to load tenders")
               /\ StoreCells' = StoreCells
        /\ Ran("dismissError")
            => /\ error' = Null
               /\ UNCHANGED <<tenders, filteredTenders, store>> ]_vars

\* a refresh failed after the initial load had brought two tenders
C23_Witness ==
    /\ lastOp.op = "loadTendersRejected"
    /\ error = Message("Failed to load tenders")
    /\ ~store.loading /\ store.phase = "done"
    /\ Len(tenders) = 2 /\ Len(filteredTenders) = 1

----------------------------------------------------------------------------
(* Derivation: further properties *)

FromDeadlineField(t) == TruthyString(deadlineOf(t)) /\ Parseable(t)
FromTenderDate(t)    == ~TruthyString(deadlineOf(t)) /\ Parseable(t)

\* C24: with sortBy = deadline, a tender dated by detailed_info.deadline and
\* a tender dated by tender_date alone, both parseable, stand in the order of
\* their two effective dates.
C24_DeadlineTieBreak ==
    (mounted /\ sortBy = "deadline")
        => \A i, j \in 1..Len(filteredTenders) :
            LET a == filteredTenders[i]
                b == filteredTenders[j]
            IN  (i < j /\ ( (FromDeadlineField(a) /\ FromTenderDate(b))
                            \/ (FromTenderDate(a) /\ FromDeadlineField(b)) ))
                    => DateGetTime(effectiveDeadline(a).v).n
                        <= DateGetTime(effectiveDeadline(b).v).n


\* C25: no step of the list or of the detail view (deriving and sorting,
\* opening, closing, a detail response or failure) changes the tenders
\* collection, neither its order nor a tender in it.
C25_StoreReadOnly == [][tenders' = tenders]_vars

\* a detail response arrived while the list shows all three tenders in an
\* order that is not the order of the collection
C25_Witness ==
    /\ mounted /\ lastOp.op = "detailResolved" /\ detailedTender # Null
    /\ Len(filteredTenders) = Len(tenders) /\ Len(tenders) = 3
    /\ filteredTenders # tenders
    /\ detailedTender \notin Range(tenders)


\* the count on the tab of a view
TabCount(view) ==
    CASE view = "processed" -> getViewStats(tenders).processed
      [] view = "all"       -> getViewStats(tenders).all
      [] view = "active"    -> getViewStats(tenders).active
      [] view = "expired"   -> getViewStats(tenders).expired

\* C26: with an empty search term and category 'all', the count on the tab
\* of the selected view is the number of tenders in the derived list.
C26_TabCountMatchesList ==
    (mounted /\ searchTerm = <<>> /\ selectedCategory = "all")
        => TabCount(selectedView) = Len(filteredTenders)

----------------------------------------------------------------------------
(* Detail modal: further properties *)

\* C27: while the modal is open, loadingDetails is true exactly as long as
\* the fetch of the most recent openModal is in flight.
C27_LoadingTracksCurrentFetch ==
    (mounted /\ isModalOpen)
        => (loadingDetails <=> \E f \in inflight : f.req = issued)


----------------------------------------------------------------------------
(* Store: further properties *)

TendersInFlight == {r \in store.pending : r.kind \in {"tenders", "extraction"}}

\* C28: once no tenders request is in flight and the request issued last has
\* resolved, the collection in the store is the response of that request.
C28_LastIssuedListingWins ==
    (TendersInFlight = {} /\ store.lastTenders > 0
        /\ store.arrived.req = store.lastTenders)
        => tenders = store.arrived.data


\* a request of the initial load (the health check, then the three
\* listings) is still to be issued or has not settled
InitialLoadUnsettled ==
    \/ store.phase \in {"mounted", "health"}
    \/ \E r \in store.pending : r.batch = 0

\* C29: the loading flag is true as long as the health check or one of the
\* three listing fetches of the initial load has not settled, and when every
\* request settles it becomes false, whichever of the four succeed or fail.
C29_InitialLoadEnds ==
    /\ [](InitialLoadUnsettled => store.loading)
    /\ <>(~store.loading)

\* the initial load is over although all four requests failed
C29_Witness ==
    /\ ~store.loading /\ store.phase = "done"
    /\ store.systemStatus = "error"
    /\ store.pages = "initial" /\ store.keywords = "initial"
    /\ tenders = <<>> /\ error # Null
    /\ store.issued = 3


----------------------------------------------------------------------------
(* Settings: properties *)

NoDuplicates(list) ==
    \A i, j \in 1..Len(list) : list[i] = list[j] => i = j

\* C30: neither recipient list of the Settings state ever holds the same
\* address twice, whatever the order of add, remove and load operations and
\* of their responses.
C30_RecipientsUnique ==
    /\ NoDuplicates(settings.esg_emails)
    /\ NoDuplicates(settings.credit_rating_emails)

=============================================================================
